---- MODULE Spec2Model ----
(***************************************************************************)
(* Model of the useWebSocket hook (frontend/src/hooks/useWebSocket.ts).    *)
(*                                                                         *)
(* The hook's React state cells and refs are the variables.  Every        *)
(* callback of the hook (connect, the checkInterval callback,             *)
(* scheduleReconnect, the two setTimeout callbacks, disconnect,           *)
(* reconnect, ping, handleMessage, the error listener, the mount effect   *)
(* and its cleanup) is an operator on a record of those variables, so     *)
(* that a handler which calls another one is the composition of the two.  *)
(*                                                                         *)
(* A callback created by useCallback sees the connectionState of the      *)
(* render that created it.  connect lists connectionState among its       *)
(* dependencies, so every closure that reaches connect (the interval      *)
(* callback, the retry timer, the settle timer) carries the               *)
(* connectionState captured at that render: the parameter cs below.       *)
(* React re-renders in a later task than the handler that set the state   *)
(* (timers and socket events that are already due run first); the         *)
(* re-render and the effect it triggers are the action Render.            *)
(***************************************************************************)
EXTENDS Integers, Sequences, FiniteSets, TLC

\* ---------------------------------------------------------------- bounds
MaxSettle == 1           \* public connect() calls whose settle timer is still pending
TrailCap == 9            \* recorded changes of connectionState in the sustained-outage scenario
MaxCfgAttempts == 6      \* the maxReconnectAttempts option in the long-backoff configuration
MaxRetries == 2          \* clicks on a boundary's retry button that are counted

\* ------------------------------------------------------ program constants
DefaultMaxReconnectAttempts == 5
baseDelay == 1000
JitterRange == 1000
MaxDelayMs == 30000

DISCONNECTED == "DISCONNECTED"
CONNECTING == "CONNECTING"
CONNECTED == "CONNECTED"
RECONNECTING == "RECONNECTING"
ConnectionState == {DISCONNECTED, CONNECTING, CONNECTED, RECONNECTING}

\* ---------------------------------------------------------------- messages
NullId == "null"
ConnIds == {"conn-1"}
WsMessageType == {"connected", "error", "snapshot_update"}
NoMessage == [type |-> "null", connection_id |-> NullId, message |-> ""]
AckMessage(id) == [type |-> "connected", connection_id |-> id, message |-> ""]
ErrorMessage == [type |-> "error", connection_id |-> NullId, message |-> "boom"]
DataMessage(t) == [type |-> t, connection_id |-> NullId, message |-> ""]

\* the values of the messageTypes option that are explored (<<>> = absent or empty)
MessageTypeConfigs == {<< >>, <<"snapshot_update", "error">>}

\* the values of the maxReconnectAttempts option that are explored (0 = absent)
CfgMaxReconnectAttempts == {0, 3}

\* Math.random() * 1000 lies in [0, 1000); the two extremes are explored
Jitters == {0, JitterRange - 1}

\* listeners the hook registers on the transport: the wildcard listener,
\* one dispatch listener per message type, and the bookkeeping error listener
ListenerKeys == {"any", "errorUnsub"} \cup WsMessageType

\* reconnectTimeoutRef.current: null, the handle of a pending timer, or the
\* handle of a timer that has fired (the ref is not reset when the timer fires)
NullTimeout == [cs |-> "null", live |-> FALSE]
FiredTimeout == [cs |-> "fired", live |-> FALSE]

VARIABLES
    \* options (fixed after construction)
    autoConnect, messageTypes, cfgMaxReconnectAttempts,
    \* whether the transport's connect() may throw at the call site
    wsThrows,
    \* React state
    isConnected, connectionId, lastMessage, connectionState,
    \* refs
    unsubscribersRef, isConnectingRef, reconnectTimeoutRef,
    reconnectAttemptsRef, shouldReconnectRef,
    \* React bookkeeping: effect has run; connectionState seen by the latest render
    mounted, rendered,
    \* browser timers: pending retry timeouts, settle timeouts, intervals (by captured state)
    retryTimers, settleTimers, intervals, armedDelay,
    \* transport
    wsStatus, wsConnId, wsListeners, wsOutstanding,
    \* what the last step did: its name (the poll's give-up branch has its own),
    \* the option callbacks and the transport calls it made
    op, calls, wsCalls,
    \* the values connectionState has taken, with the reconnect counter at each change,
    \* while the transport has never opened or reported anything and the caller has
    \* issued no command (<< >> once that no longer holds, or when the options differ)
    trail,
    \* an error boundary: which class it is, its fallback and onError props
    boundary, fallback, onError,
    \* the error its child throws when rendered (NoThrow: it renders normally)
    child,
    \* this.state of the boundary
    hasError, error,
    \* what the boundary has on screen, whether React has a render of it pending,
    \* the prop callbacks the last step made, and how often retry was clicked
    shown, renderPending, boundaryCalls, retries

options == <<autoConnect, messageTypes, cfgMaxReconnectAttempts, wsThrows>>
hookVars == <<autoConnect, messageTypes, cfgMaxReconnectAttempts, wsThrows,
              isConnected, connectionId, lastMessage, connectionState,
              unsubscribersRef, isConnectingRef, reconnectTimeoutRef,
              reconnectAttemptsRef, shouldReconnectRef, mounted, rendered,
              retryTimers, settleTimers, intervals, armedDelay,
              wsStatus, wsConnId, wsListeners, wsOutstanding, op, calls, wsCalls,
              trail>>
boundaryVars == <<boundary, fallback, onError, child, hasError, error,
                  shown, renderPending, boundaryCalls, retries>>
vars == <<hookVars, boundaryVars>>

\* the mutable state as one record, so that handlers compose
Cur ==
    [isConnected |-> isConnected, connectionId |-> connectionId,
     lastMessage |-> lastMessage, connectionState |-> connectionState,
     unsubscribersRef |-> unsubscribersRef, isConnectingRef |-> isConnectingRef,
     reconnectTimeoutRef |-> reconnectTimeoutRef,
     reconnectAttemptsRef |-> reconnectAttemptsRef,
     shouldReconnectRef |-> shouldReconnectRef,
     retryTimers |-> retryTimers, settleTimers |-> settleTimers,
     intervals |-> intervals, armedDelay |-> 0,
     wsStatus |-> wsStatus, wsConnId |-> wsConnId, wsListeners |-> wsListeners,
     wsOutstanding |-> wsOutstanding, calls |-> << >>, wsCalls |-> << >>]

Install(s) ==
    /\ isConnected' = s.isConnected
    /\ connectionId' = s.connectionId
    /\ lastMessage' = s.lastMessage
    /\ connectionState' = s.connectionState
    /\ unsubscribersRef' = s.unsubscribersRef
    /\ isConnectingRef' = s.isConnectingRef
    /\ reconnectTimeoutRef' = s.reconnectTimeoutRef
    /\ reconnectAttemptsRef' = s.reconnectAttemptsRef
    /\ shouldReconnectRef' = s.shouldReconnectRef
    /\ retryTimers' = s.retryTimers
    /\ settleTimers' = s.settleTimers
    /\ intervals' = s.intervals
    /\ armedDelay' = s.armedDelay
    /\ wsStatus' = s.wsStatus
    /\ wsConnId' = s.wsConnId
    /\ wsListeners' = s.wsListeners
    /\ wsOutstanding' = s.wsOutstanding
    /\ calls' = s.calls
    /\ wsCalls' = s.wsCalls
    /\ UNCHANGED options
    /\ UNCHANGED boundaryVars

Dec(n) == IF n > 0 THEN n - 1 ELSE 0

RECURSIVE Pow2(_)
Pow2(n) == IF n <= 0 THEN 1 ELSE 2 * Pow2(n - 1)

Min(a, b) == IF a < b THEN a ELSE b

Total(f) ==
    LET RECURSIVE Sum(_)
        Sum(S) == IF S = {} THEN 0
                  ELSE LET x == CHOOSE y \in S : TRUE IN f[x] + Sum(S \ {x})
    IN Sum(DOMAIN f)

\* ------------------------------------------------------------- transport
\* The transport client (@/lib/websocket) as the hook consumes it.
wsIsConnected(s) == s.wsStatus = "open"

wsGetConnectionId(s) == s.wsConnId

wsConnect(s) ==
    [s EXCEPT !.wsStatus = IF @ = "closed" THEN "opening" ELSE @,
              !.wsOutstanding = @ + 1,
              !.wsCalls = Append(@, "connect")]

wsDisconnect(s) ==
    [s EXCEPT !.wsStatus = "closed", !.wsConnId = NullId,
              !.wsOutstanding = 0,
              !.wsCalls = Append(@, "disconnect")]

wsOn(key, s) ==
    [s EXCEPT !.wsListeners[key] = @ + 1,
              !.unsubscribersRef = Append(@, [kind |-> "listener", key |-> key])]

wsPing(s) == [s EXCEPT !.wsCalls = Append(@, "ping")]

\* ------------------------------------------------------------------ hook
\* a default of one attempt more
maxReconnectAttempts_DefaultOffByOne ==
    IF cfgMaxReconnectAttempts = 0 THEN DefaultMaxReconnectAttempts + 1
    ELSE cfgMaxReconnectAttempts

\* the default whatever the option
maxReconnectAttempts_IgnoresOption == DefaultMaxReconnectAttempts

maxReconnectAttempts ==
    IF cfgMaxReconnectAttempts = 0 THEN DefaultMaxReconnectAttempts
    ELSE cfgMaxReconnectAttempts

\* unsubscribersRef.current.forEach((unsub) => unsub()); unsubscribersRef.current = []
RECURSIVE forEachUnsub(_, _)
forEachUnsub(list, s) ==
    IF list = << >> THEN s
    ELSE LET d == Head(list)
             s1 == IF d.kind = "listener"
                   THEN [s EXCEPT !.wsListeners[d.key] = Dec(@)]
                   ELSE [s EXCEPT !.intervals[d.key] = Dec(@)]
         IN forEachUnsub(Tail(list), s1)

disposeAll(s) ==
    [forEachUnsub(s.unsubscribersRef, s) EXCEPT !.unsubscribersRef = << >>]

\* handleMessage that leaves the reconnect counter alone on an ack
handleMessage_NoCounterReset(message, s) ==
    LET s1 == [s EXCEPT !.lastMessage = message]
        s2 == IF message.type = "connected"
              THEN [s1 EXCEPT !.isConnected = TRUE,
                              !.connectionId = message.connection_id,
                              !.connectionState = CONNECTED,
                              !.isConnectingRef = FALSE,
                              !.calls = Append(@, "onConnect")]
              ELSE s1
        s3 == IF message.type = "error"
              THEN [s2 EXCEPT !.calls = Append(@, "onError")]
              ELSE s2
    IN [s3 EXCEPT !.calls = Append(@, "onMessage")]

\* handleMessage that does not store the message
handleMessage_DropsLastMessage(message, s) ==
    LET s2 == IF message.type = "connected"
              THEN [s EXCEPT !.isConnected = TRUE,
                             !.connectionId = message.connection_id,
                             !.connectionState = CONNECTED,
                             !.isConnectingRef = FALSE,
                             !.reconnectAttemptsRef = 0,
                             !.calls = Append(@, "onConnect")]
              ELSE s
        s3 == IF message.type = "error"
              THEN [s2 EXCEPT !.calls = Append(@, "onError")]
              ELSE s2
    IN [s3 EXCEPT !.calls = Append(@, "onMessage")]

handleMessage(message, s) ==
    LET s1 == [s EXCEPT !.lastMessage = message]
        s2 == IF message.type = "connected"
              THEN [s1 EXCEPT !.isConnected = TRUE,
                              !.connectionId = message.connection_id,
                              !.connectionState = CONNECTED,
                              !.isConnectingRef = FALSE,
                              !.reconnectAttemptsRef = 0,
                              !.calls = Append(@, "onConnect")]
              ELSE s1
        s3 == IF message.type = "error"
              THEN [s2 EXCEPT !.calls = Append(@, "onError")]
              ELSE s2
    IN [s3 EXCEPT !.calls = Append(@, "onMessage")]

\* a bookkeeping listener that also reports the error to the caller
errorListener_CallsOnError(s) ==
    [s EXCEPT !.isConnectingRef = FALSE, !.connectionState = DISCONNECTED,
              !.calls = Append(@, "onError")]

\* ws.on('error', () => {...}) of connect
errorListener(s) ==
    [s EXCEPT !.isConnectingRef = FALSE, !.connectionState = DISCONNECTED]

RECURSIVE subscribeTypes(_, _)
subscribeTypes(types, s) ==
    IF types = << >> THEN s
    ELSE subscribeTypes(Tail(types), wsOn(Head(types), s))

\* a subscription that ignores messageTypes
subscribe_AlwaysWildcard(s) == wsOn("any", s)

subscribe(s) ==
    IF Len(messageTypes) > 0 THEN subscribeTypes(messageTypes, s)
    ELSE wsOn("any", s)

\* connect that keeps the subscriptions of the previous cycle
connect_NoDispose(cs, throws, s) ==
    IF s.isConnectingRef THEN s
    ELSE IF wsIsConnected(s) THEN s
    ELSE
      LET s1 == [s EXCEPT !.isConnectingRef = TRUE, !.connectionState = CONNECTING]
          s3 == subscribe(s1)
          s4 == wsOn("errorUnsub", s3)
          s5 == IF throws
                THEN [s4 EXCEPT !.isConnectingRef = FALSE,
                                !.connectionState = DISCONNECTED,
                                !.wsCalls = Append(@, "connect-throws")]
                ELSE wsConnect(s4)
      IN [s5 EXCEPT !.intervals[cs] = @ + 1,
                    !.unsubscribersRef = Append(@, [kind |-> "interval", key |-> cs])]

\* connect without the in-flight guard
connect_NoInFlightGuard(cs, throws, s) ==
    IF wsIsConnected(s) THEN s
    ELSE
      LET s1 == [s EXCEPT !.isConnectingRef = TRUE, !.connectionState = CONNECTING]
          s2 == disposeAll(s1)
          s3 == subscribe(s2)
          s4 == wsOn("errorUnsub", s3)
          s5 == IF throws
                THEN [s4 EXCEPT !.isConnectingRef = FALSE,
                                !.connectionState = DISCONNECTED,
                                !.wsCalls = Append(@, "connect-throws")]
                ELSE wsConnect(s4)
      IN [s5 EXCEPT !.intervals[cs] = @ + 1,
                    !.unsubscribersRef = Append(@, [kind |-> "interval", key |-> cs])]

\* connect whose catch block leaves the in-flight flag and the state as they are
connect_ThrowKeepsFlag(cs, throws, s) ==
    IF s.isConnectingRef THEN s
    ELSE IF wsIsConnected(s) THEN s
    ELSE
      LET s1 == [s EXCEPT !.isConnectingRef = TRUE, !.connectionState = CONNECTING]
          s2 == disposeAll(s1)
          s3 == subscribe(s2)
          s4 == wsOn("errorUnsub", s3)
          s5 == IF throws
                THEN [s4 EXCEPT !.wsCalls = Append(@, "connect-throws")]
                ELSE wsConnect(s4)
      IN [s5 EXCEPT !.intervals[cs] = @ + 1,
                    !.unsubscribersRef = Append(@, [kind |-> "interval", key |-> cs])]

\* connect as created by the render that saw connectionState = cs;
\* throws: whether the transport's connect() throws at the call site
connect(cs, throws, s) ==
    IF s.isConnectingRef THEN s
    ELSE IF wsIsConnected(s) THEN s
    ELSE
      LET s1 == [s EXCEPT !.isConnectingRef = TRUE, !.connectionState = CONNECTING]
          s2 == disposeAll(s1)
          s3 == subscribe(s2)
          s4 == wsOn("errorUnsub", s3)
          s5 == IF throws
                THEN [s4 EXCEPT !.isConnectingRef = FALSE,
                                !.connectionState = DISCONNECTED,
                                !.wsCalls = Append(@, "connect-throws")]
                ELSE wsConnect(s4)
      IN [s5 EXCEPT !.intervals[cs] = @ + 1,
                    !.unsubscribersRef = Append(@, [kind |-> "interval", key |-> cs])]

clearReconnectTimeout(s) ==
    IF s.reconnectTimeoutRef # NullTimeout
    THEN [s EXCEPT !.retryTimers =
                      IF s.reconnectTimeoutRef.live
                      THEN [@ EXCEPT ![s.reconnectTimeoutRef.cs] = Dec(@)]
                      ELSE @,
                   !.reconnectTimeoutRef = NullTimeout]
    ELSE s

\* a delay that grows linearly with the attempt number
computeDelay_LinearBackoff(attempt, jitter) ==
    Min(baseDelay * attempt + jitter, MaxDelayMs)

\* a delay without the 30 s cap
computeDelay_Uncapped(attempt, jitter) ==
    baseDelay * Pow2(attempt - 1) + jitter

computeDelay(attempt, jitter) ==
    Min(baseDelay * Pow2(attempt - 1) + jitter, MaxDelayMs)

\* scheduleReconnect that arms without cancelling the pending timer
scheduleReconnect_NoClear(cs, jitter, s) ==
    IF ~s.shouldReconnectRef \/ s.reconnectAttemptsRef >= maxReconnectAttempts
    THEN [s EXCEPT !.connectionState = DISCONNECTED, !.isConnectingRef = FALSE]
    ELSE LET n == s.reconnectAttemptsRef + 1
         IN [s EXCEPT !.reconnectAttemptsRef = n,
                      !.connectionState = RECONNECTING,
                      !.armedDelay = computeDelay(n, jitter),
                      !.retryTimers[cs] = @ + 1,
                      !.reconnectTimeoutRef = [cs |-> cs, live |-> TRUE]]

scheduleReconnect(cs, jitter, s) ==
    LET s1 == clearReconnectTimeout(s)
    IN IF ~s1.shouldReconnectRef \/ s1.reconnectAttemptsRef >= maxReconnectAttempts
       THEN [s1 EXCEPT !.connectionState = DISCONNECTED, !.isConnectingRef = FALSE]
       ELSE LET n == s1.reconnectAttemptsRef + 1
            IN [s1 EXCEPT !.reconnectAttemptsRef = n,
                          !.connectionState = RECONNECTING,
                          !.armedDelay = computeDelay(n, jitter),
                          !.retryTimers[cs] = @ + 1,
                          !.reconnectTimeoutRef = [cs |-> cs, live |-> TRUE]]

\* a poll that leaves the connection id in place when the transport is not connected
checkInterval_KeepsIdOnDrop(cs, jitter, s) ==
    LET connected == wsIsConnected(s)
        s1 == [s EXCEPT !.isConnected = connected]
    IN IF connected
       THEN LET s2 == [s1 EXCEPT !.connectionId = wsGetConnectionId(s)]
            IN IF cs # CONNECTED
               THEN [s2 EXCEPT !.connectionState = CONNECTED, !.isConnectingRef = FALSE]
               ELSE s2
       ELSE IF cs = CONNECTED \/ cs = CONNECTING
            THEN IF s1.shouldReconnectRef
                    /\ s1.reconnectAttemptsRef < maxReconnectAttempts
                 THEN scheduleReconnect(cs, jitter, s1)
                 ELSE [s1 EXCEPT !.connectionState = DISCONNECTED,
                                 !.isConnectingRef = FALSE]
            ELSE s1

\* the setInterval callback of connect
checkInterval(cs, jitter, s) ==
    LET connected == wsIsConnected(s)
        s1 == [s EXCEPT !.isConnected = connected]
    IN IF connected
       THEN LET s2 == [s1 EXCEPT !.connectionId = wsGetConnectionId(s)]
            IN IF cs # CONNECTED
               THEN [s2 EXCEPT !.connectionState = CONNECTED, !.isConnectingRef = FALSE]
               ELSE s2
       ELSE LET s2 == [s1 EXCEPT !.connectionId = NullId]
            IN IF cs = CONNECTED \/ cs = CONNECTING
               THEN IF s2.shouldReconnectRef
                       /\ s2.reconnectAttemptsRef < maxReconnectAttempts
                    THEN scheduleReconnect(cs, jitter, s2)
                    ELSE [s2 EXCEPT !.connectionState = DISCONNECTED,
                                    !.isConnectingRef = FALSE]
               ELSE s2

\* the branch of the setInterval callback that gives up (lines 212-215) is taken
givesUp(cs, s) ==
    /\ ~wsIsConnected(s)
    /\ cs = CONNECTED \/ cs = CONNECTING
    /\ ~(s.shouldReconnectRef /\ s.reconnectAttemptsRef < maxReconnectAttempts)

\* the setTimeout callback of scheduleReconnect
reconnectTimeout(cs, throws, s) ==
    connect(cs, throws, [s EXCEPT !.isConnectingRef = FALSE])

disconnect(s) ==
    LET s1 == [s EXCEPT !.shouldReconnectRef = FALSE, !.isConnectingRef = FALSE]
        s2 == clearReconnectTimeout(s1)
        s3 == disposeAll(s2)
        s4 == wsDisconnect(s3)
    IN [s4 EXCEPT !.isConnected = FALSE,
                  !.connectionId = NullId,
                  !.connectionState = DISCONNECTED,
                  !.reconnectAttemptsRef = 0,
                  !.calls = Append(@, "onDisconnect")]

\* reconnect (the public connect) as created by the render that saw cs
reconnect(cs, s) ==
    LET s1 == disconnect(s)
    IN [s1 EXCEPT !.reconnectAttemptsRef = 0,
                  !.shouldReconnectRef = TRUE,
                  !.settleTimers[cs] = @ + 1]

\* a ping that also resets the reconnect counter
ping_ResetsCounter(s) == [wsPing(s) EXCEPT !.reconnectAttemptsRef = 0]

ping(s) == wsPing(s)

\* body of the auto-connect effect
effect(cs, throws, s) ==
    IF autoConnect
    THEN connect(cs, throws, [s EXCEPT !.shouldReconnectRef = TRUE])
    ELSE s

\* cleanup of the auto-connect effect
effectCleanup(s) == disconnect([s EXCEPT !.shouldReconnectRef = FALSE])

\* the transport hands the message to every listener registered for it:
\* n dispatch listeners (handleMessage), then the bookkeeping error listeners
RECURSIVE dispatchTo(_, _, _)
dispatchTo(n, message, s) ==
    IF n = 0 THEN s ELSE dispatchTo(n - 1, message, handleMessage(message, s))

RECURSIVE bookTo(_, _)
bookTo(n, s) == IF n = 0 THEN s ELSE bookTo(n - 1, errorListener(s))

emit(message, s) ==
    LET s1 == dispatchTo(s.wsListeners[message.type] + s.wsListeners["any"], message, s)
    IN IF message.type = "error" THEN bookTo(s.wsListeners["errorUnsub"], s1)
       ELSE s1

\* outcomes of one call of the transport's connect(): returns, or throws
Throws == IF wsThrows THEN BOOLEAN ELSE {FALSE}

\* state and refs after construction, the options being chosen
InitState ==
    /\ isConnected = FALSE
    /\ connectionId = NullId
    /\ lastMessage = NoMessage
    /\ connectionState = DISCONNECTED
    /\ unsubscribersRef = << >>
    /\ isConnectingRef = FALSE
    /\ reconnectTimeoutRef = NullTimeout
    /\ reconnectAttemptsRef = 0
    /\ shouldReconnectRef = TRUE
    /\ mounted = FALSE
    /\ rendered = DISCONNECTED
    /\ retryTimers = [c \in ConnectionState |-> 0]
    /\ settleTimers = [c \in ConnectionState |-> 0]
    /\ intervals = [c \in ConnectionState |-> 0]
    /\ armedDelay = 0
    /\ wsStatus = "closed"
    /\ wsConnId = NullId
    /\ wsListeners = [k \in ListenerKeys |-> 0]
    /\ wsOutstanding = 0
    /\ op = "init"
    /\ calls = << >>
    /\ wsCalls = << >>
    /\ trail = IF autoConnect /\ cfgMaxReconnectAttempts = 3
               THEN << [state |-> DISCONNECTED, attempts |-> 0] >>
               ELSE << >>

\* the error boundaries: the two classes, the values of their props, the
\* errors a child can throw
Boundaries == {"WebSocketErrorBoundary", "ChartErrorBoundary"}
Undefined == "undefined"
FallbackProps == {Undefined, "", "<div>Custom</div>"}
NullError == "null"
Errors == {"Error: first", "Error: second"}
NoThrow == "renders"

\* the state a boundary is constructed with, nothing rendered yet
BoundaryState ==
    /\ hasError = FALSE
    /\ error = NullError
    /\ shown = "nothing"
    /\ renderPending = TRUE
    /\ boundaryCalls = << >>
    /\ retries = 0

\* a plain boundary around a child that renders normally
NoBoundary ==
    /\ boundary = "WebSocketErrorBoundary"
    /\ fallback = Undefined
    /\ onError = FALSE
    /\ child = NoThrow
    /\ BoundaryState

InitHook ==
    /\ NoBoundary
    /\ autoConnect \in BOOLEAN
    /\ messageTypes \in MessageTypeConfigs
    /\ cfgMaxReconnectAttempts \in CfgMaxReconnectAttempts
    /\ InitState

\* the transport keeps its contract: connect() does not throw
Init == InitHook /\ wsThrows = FALSE

\* a manager configured with more attempts than the backoff needs to reach maxDelay
BackoffInit ==
    /\ NoBoundary
    /\ autoConnect = TRUE
    /\ messageTypes = << >>
    /\ cfgMaxReconnectAttempts = MaxCfgAttempts
    /\ InitState
    /\ wsThrows = FALSE

\* a transport whose connect() may throw at the call site; a manager with the
\* wildcard subscription and the default maxReconnectAttempts
ThrowInit ==
    /\ NoBoundary
    /\ autoConnect \in BOOLEAN
    /\ messageTypes = << >>
    /\ cfgMaxReconnectAttempts = 0
    /\ InitState
    /\ wsThrows = TRUE

\* setConnectionState as an observer sees it; leaves: the step is a caller
\* command other than ping, or the transport opening or reporting something
Track(leaves) ==
    trail' = IF trail = << >> \/ leaves THEN << >>
             ELSE IF connectionState' # connectionState /\ Len(trail) < TrailCap
                  THEN Append(trail, [state |-> connectionState',
                                      attempts |-> reconnectAttemptsRef'])
                  ELSE trail

\* --------------------------------------------------------------- actions
\* first run of the auto-connect effect
Mount ==
    /\ ~mounted
    /\ \E throws \in Throws : Install(effect(rendered, throws, Cur))
    /\ mounted' = TRUE
    /\ op' = "mount"
    /\ UNCHANGED rendered
    /\ Track(FALSE)

\* React re-renders with the new connectionState: connect gets a new identity,
\* so the effect's cleanup runs and the effect runs again with the new closures
Render ==
    /\ mounted
    /\ connectionState # rendered
    /\ \E throws \in Throws :
          Install(effect(connectionState, throws, effectCleanup(Cur)))
    /\ rendered' = connectionState
    /\ op' = "render"
    /\ UNCHANGED mounted
    /\ Track(FALSE)

\* one tick of a poll created by the render that saw cs; jitter: the value
\* Math.random() * 1000 takes if the tick schedules a retry
Tick(cs, jitter) ==
    /\ intervals[cs] > 0
    /\ Install(checkInterval(cs, jitter, Cur))
    /\ op' = IF givesUp(cs, Cur) THEN "checkInterval:giveUp" ELSE "checkInterval"
    /\ UNCHANGED <<mounted, rendered>>
    /\ Track(FALSE)

CheckIntervalTick == \E cs \in ConnectionState, jitter \in Jitters : Tick(cs, jitter)

ReconnectTimeoutFire ==
    /\ \E cs \in ConnectionState, throws \in Throws :
          /\ retryTimers[cs] > 0
          /\ LET s0 == [Cur EXCEPT
                          !.retryTimers[cs] = @ - 1,
                          !.reconnectTimeoutRef =
                              IF @ = [cs |-> cs, live |-> TRUE]
                              THEN FiredTimeout ELSE @]
             IN Install(reconnectTimeout(cs, throws, s0))
    /\ op' = "reconnectTimeout"
    /\ UNCHANGED <<mounted, rendered>>
    /\ Track(FALSE)

SettleTimeoutFire ==
    /\ \E cs \in ConnectionState, throws \in Throws :
          /\ settleTimers[cs] > 0
          /\ Install(connect(cs, throws, [Cur EXCEPT !.settleTimers[cs] = @ - 1]))
    /\ op' = "settleTimeout"
    /\ UNCHANGED <<mounted, rendered>>
    /\ Track(FALSE)

\* the caller invokes the returned connect (= reconnect of the latest render)
CallReconnect ==
    /\ mounted
    /\ Total(settleTimers) < MaxSettle
    /\ Install(reconnect(rendered, Cur))
    /\ op' = "reconnect"
    /\ UNCHANGED <<mounted, rendered>>
    /\ Track(TRUE)

CallDisconnect ==
    /\ mounted
    /\ Install(disconnect(Cur))
    /\ op' = "disconnect"
    /\ UNCHANGED <<mounted, rendered>>
    /\ Track(TRUE)

CallPing ==
    /\ mounted
    /\ Install(ping(Cur))
    /\ op' = "ping"
    /\ UNCHANGED <<mounted, rendered>>
    /\ Track(FALSE)

\* the socket opens; the server assigns a connection id
TransportOpen ==
    /\ wsStatus = "opening"
    /\ \E id \in ConnIds :
          Install([Cur EXCEPT !.wsStatus = "open", !.wsConnId = id,
                              !.wsOutstanding = 0])
    /\ op' = "open"
    /\ UNCHANGED <<mounted, rendered>>
    /\ Track(TRUE)

\* the open fails: the transport reports it as an error message
TransportFail ==
    /\ wsStatus = "opening"
    /\ Install(emit(ErrorMessage, [Cur EXCEPT !.wsStatus = "closed",
                                              !.wsOutstanding = 0]))
    /\ op' = "fail"
    /\ UNCHANGED <<mounted, rendered>>
    /\ Track(TRUE)

\* an open socket drops without any message
TransportDrop ==
    /\ wsStatus = "open"
    /\ Install([Cur EXCEPT !.wsStatus = "closed", !.wsConnId = NullId])
    /\ op' = "drop"
    /\ UNCHANGED <<mounted, rendered>>
    /\ Track(TRUE)

\* the server sends a message over the open socket
Deliver(m) ==
    /\ wsStatus = "open"
    /\ Install(emit(m, Cur))
    /\ op' = "message"
    /\ UNCHANGED <<mounted, rendered>>
    /\ Track(TRUE)

TransportMessage ==
    \E m \in {AckMessage(wsConnId), ErrorMessage, DataMessage("snapshot_update")} :
        Deliver(m)

Next ==
    \/ Mount
    \/ Render
    \/ CheckIntervalTick
    \/ ReconnectTimeoutFire
    \/ SettleTimeoutFire
    \/ CallReconnect
    \/ CallDisconnect
    \/ CallPing
    \/ TransportOpen
    \/ TransportFail
    \/ TransportDrop
    \/ TransportMessage

Spec == Init /\ [][Next]_vars

BackoffSpec == BackoffInit /\ [][Next]_vars

\* what the browser and React guarantee to run: a due timer fires, a pending
\* effect or re-render runs; the transport and the caller are under no obligation
FairSpec ==
    /\ Spec
    /\ WF_vars(Mount)
    /\ WF_vars(Render)
    /\ WF_vars(CheckIntervalTick)
    /\ WF_vars(ReconnectTimeoutFire)
    /\ WF_vars(SettleTimeoutFire)

ThrowSpec == ThrowInit /\ [][Next]_vars

TypeOK ==
    /\ connectionState \in ConnectionState
    /\ rendered \in ConnectionState
    /\ reconnectAttemptsRef \in Nat
    /\ wsStatus \in {"closed", "opening", "open"}

\* ---------------------------------------------------------------- claims

Range(f) == {f[i] : i \in DOMAIN f}

Count(x, f) == Cardinality({i \in DOMAIN f : f[i] = x})

\* everything of the hook and the transport except the settle timers and the
\* record of the last step
hookState == <<isConnected, connectionId, lastMessage, connectionState,
               unsubscribersRef, isConnectingRef, reconnectTimeoutRef,
               reconnectAttemptsRef, shouldReconnectRef, retryTimers, intervals,
               wsStatus, wsConnId, wsListeners, wsOutstanding>>

\* C1: in every reachable state at most one transport connect() call issued
\* by the manager is outstanding (issued and not yet resolved as open, failed
\* or closed by disconnect).
C1_AtMostOneOutstandingConnect == wsOutstanding <= 1

\* C2: the internal connect() is a no-op when the in-flight flag is set or the
\* transport reports connected: a settle timer that calls connect() in such a
\* state makes no transport call, registers no listener, starts no poll and
\* changes no state.
C2_ConnectNoOpWhileConnecting ==
    [][(op' = "settleTimeout" /\ (isConnectingRef \/ wsStatus = "open") /\ SettleTimeoutFire)
         => (UNCHANGED hookState /\ wsCalls' = << >> /\ calls' = << >>)]_vars

\* a settle timer has just called connect() while the first connect() was still
\* in flight, and the transport saw no second connect()
C2_Witness ==
    /\ op = "settleTimeout"
    /\ isConnectingRef
    /\ connectionState = CONNECTING
    /\ wsStatus = "opening"
    /\ wsOutstanding = 1
    /\ wsCalls = << >>

\* C3: the reconnect counter always satisfies 0 <= counter <= maxAttempts,
\* maxAttempts being the configured maxReconnectAttempts, or 5 when absent.
C3_CounterWithinMaxAttempts ==
    /\ reconnectAttemptsRef >= 0
    /\ reconnectAttemptsRef <=
          (IF cfgMaxReconnectAttempts = 0 THEN 5 ELSE cfgMaxReconnectAttempts)

\* the counter has reached the bound, with the option absent and with it given
C3_Witness ==
    /\ op = "checkInterval"
    /\ connectionState = RECONNECTING
    /\ cfgMaxReconnectAttempts = 0
    /\ reconnectAttemptsRef = 5

\* C4: with maxAttempts = 3, auto-reconnect enabled and a transport that never
\* connects and emits nothing, the connection state takes exactly the values
\* Disconnected, Connecting, Reconnecting (counter 1), Connecting,
\* Reconnecting (counter 2), Connecting, Reconnecting (counter 3), Disconnected,
\* and nothing after that without a manual reconnect.
C4_Expected ==
    << [state |-> DISCONNECTED, attempts |-> 0],
       [state |-> CONNECTING, attempts |-> 0],
       [state |-> RECONNECTING, attempts |-> 1],
       [state |-> CONNECTING, attempts |-> 1],
       [state |-> RECONNECTING, attempts |-> 2],
       [state |-> CONNECTING, attempts |-> 2],
       [state |-> RECONNECTING, attempts |-> 3],
       [state |-> DISCONNECTED, attempts |-> 3] >>

C4_SustainedOutageSequence ==
    trail # << >> =>
        /\ Len(trail) <= Len(C4_Expected)
        /\ \A i \in 1..Len(trail) :
              /\ trail[i].state = C4_Expected[i].state
              /\ trail[i].state = RECONNECTING
                    => trail[i].attempts = C4_Expected[i].attempts
\* C5: once the poll has detected a drop with a negative retry decision, the
\* state is Disconnected, and until the caller invokes connect no retry timer
\* fires and the transport's connect() is not invoked; stated for the step
\* that follows the give-up.
C5_GiveUpIsTerminal ==
    [][/\ op' = "checkInterval:giveUp" => connectionState' = DISCONNECTED
       /\ (op = "checkInterval:giveUp" /\ op' # "reconnect")
            => (op' # "reconnectTimeout" /\ "connect" \notin Range(wsCalls'))]_vars

\* C6: after the caller's disconnect(), the transport's connect() is not
\* invoked and the state stays Disconnected until the caller next invokes
\* connect; stated for the step that follows the disconnect().
C6_DisconnectSuppressesConnect ==
    [][(op = "disconnect" /\ op' # "reconnect")
         => ("connect" \notin Range(wsCalls') /\ connectionState' = DISCONNECTED)]_vars

\* C7: immediately after disconnect() returns there are no live listeners, no
\* poll interval, no disposers, and no pending timer (retry or settle) that
\* would later call connect().
C7_DisconnectLeavesNothingPending ==
    op = "disconnect" =>
        /\ Total(wsListeners) = 0
        /\ Total(intervals) = 0
        /\ unsubscribersRef = << >>
        /\ Total(retryTimers) + Total(settleTimers) = 0

\* C8: after disconnect() the manager is as if it had never connected, the
\* reconnect counter aside: Disconnected, not connected, no connection id, no
\* last message, in-flight flag clear, no subscriptions and no timers.
C8_DisconnectRestoresInitialState ==
    op = "disconnect" =>
        /\ connectionState = DISCONNECTED
        /\ ~isConnected
        /\ connectionId = NullId
        /\ lastMessage = NoMessage
        /\ ~isConnectingRef
        /\ Total(wsListeners) = 0 /\ Total(intervals) = 0
        /\ Total(retryTimers) = 0 /\ Total(settleTimers) = 0

\* C9: whenever the state becomes Connected, through an ack or through the
\* poll's force-advance, the reconnect counter is 0 in the resulting state.
C9_ConnectedResetsCounter ==
    [][(connectionState # CONNECTED /\ connectionState' = CONNECTED)
         => reconnectAttemptsRef' = 0]_vars

\* C10: dispatching an ack message yields state Connected, isConnected true,
\* the connection id carried by the message, the in-flight flag clear, the
\* reconnect counter 0, and exactly one onConnect call for that message.
C10_AckDispatch ==
    (op = "message" /\ calls # << >> /\ lastMessage.type = "connected") =>
        /\ connectionState = CONNECTED
        /\ isConnected
        /\ connectionId = lastMessage.connection_id
        /\ connectionId \in ConnIds
        /\ ~isConnectingRef
        /\ reconnectAttemptsRef = 0
        /\ Count("onConnect", calls) = 1

\* an ack has just been dispatched in a cycle in which a retry had been scheduled
C10_Witness ==
    /\ op = "message"
    /\ lastMessage.type = "connected"
    /\ calls = <<"onConnect", "onMessage">>
    /\ reconnectTimeoutRef # NullTimeout
    /\ connectionState = CONNECTED

\* C11: after a successful connection (counter 0) and a single transport drop,
\* the poll that detects the drop increments the counter to 1 and arms one
\* retry timer with a delay in [1000, 2000]; further polls that still see the
\* transport down while that retry is pending (the ack is still the last
\* message and the transport is closed) neither re-arm the timer nor increment
\* the counter; the ack of the following reconnection leaves the counter at 0.
C11_SingleDropSingleRetry ==
    [][/\ (/\ op' = "checkInterval"
           /\ connectionState = CONNECTED /\ reconnectAttemptsRef = 0
           /\ connectionState' = RECONNECTING)
            => /\ reconnectAttemptsRef' = 1
               /\ armedDelay' >= 1000 /\ armedDelay' <= 2000
               /\ Total(retryTimers') = 1
       /\ (/\ op' \in {"checkInterval", "checkInterval:giveUp"}
           /\ connectionState = RECONNECTING
           /\ Total(retryTimers) > 0
           /\ lastMessage.type = "connected" /\ wsStatus = "closed")
            => /\ reconnectAttemptsRef' = reconnectAttemptsRef
               /\ retryTimers' = retryTimers
               /\ armedDelay' = 0
       /\ (op' = "message" /\ connectionState # CONNECTED /\ connectionState' = CONNECTED)
            => reconnectAttemptsRef' = 0]_vars

\* C12: a transport drop is never silently ignored: once the manager is
\* Connected and the transport is no longer connected, with auto-reconnect
\* enabled and the counter below maxAttempts, the manager eventually enters
\* Reconnecting, unless the caller issues a command first.
C12_DropLeadsToReconnecting ==
    (/\ connectionState = CONNECTED
     /\ wsStatus = "closed"
     /\ shouldReconnectRef
     /\ reconnectAttemptsRef < (IF cfgMaxReconnectAttempts = 0 THEN 5
                                ELSE cfgMaxReconnectAttempts))
      ~> (connectionState = RECONNECTING \/ op \in {"reconnect", "disconnect", "ping"})

\* C13: the delivery of a server-signaled error-tagged message leaves the
\* connection state and the in-flight flag unchanged; stated for the case the
\* claim singles out: a manager that is Connected stays Connected.
C13_ErrorMessageKeepsState ==
    [][(Deliver(ErrorMessage) /\ connectionState = CONNECTED)
         => UNCHANGED <<connectionState, isConnectingRef>>]_vars

\* C14: with a non-empty messageTypes, a message whose tag is not in the set
\* leaves lastMessage unchanged and invokes none of onMessage, onConnect and
\* onError.
C14_FilteredMessageNotDispatched ==
    [][(op' = "message" /\ Len(messageTypes) > 0) =>
       \A m \in {AckMessage(wsConnId), ErrorMessage, DataMessage("snapshot_update")} :
          (m.type \notin Range(messageTypes) /\ Deliver(m))
            => (lastMessage' = lastMessage /\ calls' = << >>)]_vars

\* an ack has just been delivered to a subscribed manager whose messageTypes
\* does not list it: nothing was called
C14_Witness ==
    /\ op = "message"
    /\ messageTypes = <<"snapshot_update", "error">>
    /\ wsListeners["snapshot_update"] = 1 /\ wsListeners["error"] = 1
    /\ wsListeners["errorUnsub"] = 1
    /\ calls = << >>
    /\ lastMessage = NoMessage

\* C15: with messageTypes absent or empty, every message the transport
\* delivers while the manager is subscribed invokes onMessage exactly once and
\* becomes lastMessage.
C15_WildcardDispatch ==
    [][(op' \in {"message", "fail"} /\ Len(messageTypes) = 0 /\ wsListeners["any"] > 0) =>
       \A m \in {AckMessage(wsConnId), ErrorMessage, DataMessage("snapshot_update")} :
          (Deliver(m) \/ (TransportFail /\ m = ErrorMessage))
            => (lastMessage' = m /\ Count("onMessage", calls') = 1)]_vars

\* a data message was dispatched through the wildcard listener after an ack:
\* lastMessage was overwritten
C15_Witness ==
    /\ op = "message"
    /\ messageTypes = << >>
    /\ lastMessage = DataMessage("snapshot_update")
    /\ calls = <<"onMessage">>
    /\ connectionId \in ConnIds

\* C16 as stated: the delay armed for retry a (1 <= a <= maxAttempts) lies in
\* [1000 * 2^(a-1), min(1000 * 2^(a-1) + 1000, 30000)].
C16_DelayWithinStatedBounds ==
    armedDelay # 0 =>
        /\ reconnectAttemptsRef >= 1
        /\ reconnectAttemptsRef <= cfgMaxReconnectAttempts
        /\ armedDelay >= 1000 * Pow2(reconnectAttemptsRef - 1)
        /\ armedDelay <= Min(1000 * Pow2(reconnectAttemptsRef - 1) + 1000, 30000)

\* C16: the delay armed for retry a (1 <= a <= maxAttempts) lies in
\* [min(1000 * 2^(a-1), 30000), min(1000 * 2^(a-1) + 1000, 30000)]: the cap
\* applies to the lower bound as well.
C16_DelayWithinCappedBounds ==
    armedDelay # 0 =>
        /\ reconnectAttemptsRef >= 1
        /\ reconnectAttemptsRef <= cfgMaxReconnectAttempts
        /\ armedDelay >= Min(1000 * Pow2(reconnectAttemptsRef - 1), 30000)
        /\ armedDelay <= Min(1000 * Pow2(reconnectAttemptsRef - 1) + 1000, 30000)

\* the sixth retry has just been armed: 1000 * 2^5 exceeds the cap
C16_Witness ==
    /\ op = "checkInterval"
    /\ connectionState = RECONNECTING
    /\ reconnectAttemptsRef = 6
    /\ armedDelay = 30000
    /\ Total(retryTimers) = 1

\* C17: the delay of every armed retry timer is at most 30000 ms, whatever the
\* attempt number and the configured maxAttempts.
C17_DelayAtMostMaxDelay == armedDelay <= 30000

\* a retry has been armed with exactly the cap, its uncapped delay being larger
C17_Witness ==
    /\ armedDelay = 30000
    /\ 1000 * Pow2(reconnectAttemptsRef - 1) > 30000
    /\ reconnectTimeoutRef.live

\* C18: when a poll detects a drop (the transport is not connected and the
\* poll's captured state is Connected or Connecting), a retry is scheduled
\* (counter incremented, timer armed, state Reconnecting) if and only if
\* auto-reconnect is enabled and the counter is below maxAttempts at that
\* moment; otherwise the state becomes Disconnected, the counter is unchanged
\* and no timer is armed.
C18_RetryDecisionIsShouldRetry ==
    [][(op' \in {"checkInterval", "checkInterval:giveUp"} /\ wsStatus # "open") =>
       \A cs \in {CONNECTED, CONNECTING}, jitter \in Jitters :
          Tick(cs, jitter) =>
             IF /\ shouldReconnectRef
                /\ reconnectAttemptsRef < (IF cfgMaxReconnectAttempts = 0 THEN 5
                                           ELSE cfgMaxReconnectAttempts)
             THEN /\ reconnectAttemptsRef' = reconnectAttemptsRef + 1
                  /\ connectionState' = RECONNECTING
                  /\ armedDelay' > 0
                  /\ reconnectTimeoutRef'.live
                  /\ Total(retryTimers') = 1
             ELSE /\ connectionState' = DISCONNECTED
                  /\ reconnectAttemptsRef' = reconnectAttemptsRef
                  /\ armedDelay' = 0
                  /\ retryTimers' = retryTimers]_vars

\* a poll has just declined to retry because the counter had reached the
\* configured maxAttempts, auto-reconnect being enabled
C18_Witness ==
    /\ op = "checkInterval:giveUp"
    /\ shouldReconnectRef
    /\ cfgMaxReconnectAttempts = 3
    /\ reconnectAttemptsRef = 3
    /\ connectionState = DISCONNECTED

\* C19: the public connect performs a clean cycle: when it returns no retry
\* timer is pending, nothing is subscribed, the counter is 0 and auto-reconnect
\* is enabled; and the connect attempt begins only after the settle delay: the
\* transport's connect() is not invoked while the settle timer is pending.
C19_PublicConnectCleanCycle ==
    [][/\ op' = "reconnect"
            => /\ Total(retryTimers') = 0
               /\ ~reconnectTimeoutRef'.live
               /\ Total(wsListeners') = 0 /\ Total(intervals') = 0
               /\ unsubscribersRef' = << >>
               /\ reconnectAttemptsRef' = 0
               /\ shouldReconnectRef'
               /\ "connect" \notin Range(wsCalls')
       /\ (Total(settleTimers) > 0 /\ settleTimers' = settleTimers)
            => "connect" \notin Range(wsCalls')]_vars

\* C20: in every reachable state at most one retry timer is pending, and it is
\* the one reconnectTimeoutRef holds: a timer that was replaced or cancelled
\* is no longer pending, so it never fires.
C20_AtMostOneRetryTimer ==
    /\ Total(retryTimers) <= 1
    /\ \A cs \in ConnectionState :
          retryTimers[cs] > 0 => reconnectTimeoutRef = [cs |-> cs, live |-> TRUE]

\* a retry has just been armed while the previous one was still pending: the
\* state has not changed since the first retry was scheduled, the counter is 2
\* and one timer is pending
C20_Witness ==
    /\ op = "checkInterval"
    /\ armedDelay > 0
    /\ trail # << >>
    /\ trail[Len(trail)] = [state |-> RECONNECTING, attempts |-> 1]
    /\ reconnectAttemptsRef = 2
    /\ Total(retryTimers) = 1

\* C21: subscriptions never accumulate across connect cycles: the manager
\* holds at most one dispatch listener per selector (or one wildcard
\* listener), at most one bookkeeping error listener and at most one poll
\* interval, so one inbound message invokes onMessage at most once.
C21_NoSubscriptionAccumulation ==
    /\ \A k \in ListenerKeys : wsListeners[k] <= 1
    /\ Total(intervals) <= 1
    /\ Count("onMessage", calls) <= 1

\* a retry timer has just started a second connect cycle after a drop was
\* detected: the manager is subscribed once and polls once
C21_Witness ==
    /\ op = "reconnectTimeout"
    /\ "connect" \in Range(wsCalls)
    /\ reconnectAttemptsRef > 0
    /\ wsListeners["errorUnsub"] = 1
    /\ Total(intervals) = 1
    /\ Len(unsubscribersRef) = Total(wsListeners) + 1

\* C23: ping has no state effect: it forwards one heartbeat request to the
\* transport and leaves the connection state, isConnected, connectionId,
\* lastMessage, the reconnect counter, the in-flight flag, the auto-reconnect
\* flag, the timers and the subscriptions unchanged.
C23_PingHasNoStateEffect ==
    [][op' = "ping" =>
          /\ UNCHANGED <<hookState, settleTimers>>
          /\ wsCalls' = <<"ping">>
          /\ calls' = << >>]_vars

\* a ping has just been sent while a retry was pending
C23_Witness ==
    /\ op = "ping"
    /\ wsCalls = <<"ping">>
    /\ connectionState = RECONNECTING
    /\ reconnectAttemptsRef = 1
    /\ Total(retryTimers) = 1

\* C27: on a poll tick where the transport reports connected and the state is
\* not Connected, the manager force-advances to Connected, takes the
\* transport's connection id and clears the in-flight flag; where the state
\* is already Connected, the state and the in-flight flag are unchanged.
C27_PollForceAdvance ==
    [][(op' = "checkInterval" /\ wsStatus = "open") =>
          IF connectionState # CONNECTED
          THEN /\ connectionState' = CONNECTED
               /\ connectionId' = wsConnId
               /\ ~isConnectingRef'
          ELSE UNCHANGED <<connectionState, isConnectingRef>>]_vars

\* C28: an error-tagged message delivered while the manager is subscribed
\* through the wildcard listener or through a messageTypes set containing the
\* error tag invokes onError once and then onMessage once; the bookkeeping
\* error listener invokes neither, so with only that listener registered
\* nothing is called.
C28_ErrorDeliveredOnce ==
    [][(op' \in {"message", "fail"} /\ (Deliver(ErrorMessage) \/ TransportFail)) =>
          /\ (wsListeners["any"] > 0 \/ wsListeners["error"] > 0)
                => (calls' = <<"onError", "onMessage">> /\ lastMessage' = ErrorMessage)
          /\ (wsListeners["any"] = 0 /\ wsListeners["error"] = 0)
                => calls' = << >>]_vars

\* an error message has just been delivered to a manager subscribed through a
\* messageTypes set containing the error tag, the bookkeeping listener being
\* registered as well
C28_Witness ==
    /\ op = "message"
    /\ messageTypes = <<"snapshot_update", "error">>
    /\ wsListeners["error"] = 1 /\ wsListeners["errorUnsub"] = 1
    /\ lastMessage = ErrorMessage
    /\ calls = <<"onError", "onMessage">>

\* C29: no reconnect storm: while the component stays mounted, a step that is
\* neither the caller's disconnect nor the caller's connect never invokes the
\* transport's disconnect(); in particular the re-render that follows a change
\* of the connection state does not.
C29_NoReconnectStorm ==
    [][op' \notin {"disconnect", "reconnect"}
          => "disconnect" \notin Range(wsCalls')]_vars

\* C30: a retry timer is pending only while the state is Reconnecting: in
\* every reachable state, if the state is Disconnected, Connecting or
\* Connected then no retry timer is pending.
C30_TimerOnlyWhileReconnecting ==
    connectionState # RECONNECTING => Total(retryTimers) = 0

\* a sustained outage with no caller command: the transport never opens (it may
\* report that an open failed) and the caller invokes nothing
OutageNext ==
    \/ Mount
    \/ Render
    \/ CheckIntervalTick
    \/ ReconnectTimeoutFire
    \/ TransportFail

\* the browser and React run a due timer, a pending effect or re-render
OutageSpec ==
    /\ Init
    /\ [][OutageNext]_vars
    /\ WF_vars(Mount)
    /\ WF_vars(Render)
    /\ WF_vars(CheckIntervalTick)
    /\ WF_vars(ReconnectTimeoutFire)

\* C22: under a sustained outage with no caller command, automatic retrying
\* terminates: eventually the state is Disconnected and remains Disconnected
\* forever.
C22_RetryingTerminates == <>[](connectionState = DISCONNECTED)

\* C24: when the transport's connect() throws at the call site, the manager's
\* connect() absorbs it and returns with the in-flight flag cleared and the
\* state Disconnected, so no later connect() is blocked by a stale flag.
C24_ThrowAbsorbed ==
    "connect-throws" \in Range(wsCalls)
        => (~isConnectingRef /\ connectionState = DISCONNECTED)

C24_Witness ==
    /\ op = "reconnectTimeout"
    /\ wsCalls = <<"connect-throws">>
    /\ ~isConnectingRef
    /\ connectionState = DISCONNECTED
    /\ reconnectAttemptsRef > 0

\* ------------------------------------------------------- error boundaries
\* WebSocketErrorBoundary and ChartErrorBoundary have the same logic and differ
\* in the text of the default fallback UI

\* JavaScript truthiness of the fallback prop: undefined and "" are falsy
Truthy(v) == v \notin {Undefined, ""}

\* the heading of the default fallback UI, which carries the retry button
DefaultUI ==
    IF boundary = "WebSocketErrorBoundary" THEN "Connection Error" ELSE "Chart Error"

getDerivedStateFromError(e) == [hasError |-> TRUE, error |-> e]

componentDidCatch(e) ==
    IF onError THEN << [fn |-> "onError", error |-> e] >> ELSE << >>

\* handleRetry that clears the error and leaves hasError as it is
handleRetry_KeepsHasError == [hasError |-> hasError, error |-> NullError]

handleRetry == [hasError |-> FALSE, error |-> NullError]

\* render() for this.state = st, the children rendering normally
render(st) ==
    IF st.hasError
    THEN IF Truthy(fallback) THEN fallback ELSE DefaultUI
    ELSE "children"

\* a boundary of either class with any props around any child
BoundaryInit ==
    /\ autoConnect = FALSE
    /\ messageTypes = << >>
    /\ cfgMaxReconnectAttempts = 0
    /\ InitState
    /\ wsThrows = FALSE
    /\ boundary \in Boundaries
    /\ fallback \in FallbackProps
    /\ onError \in BOOLEAN
    /\ child \in {NoThrow} \cup Errors
    /\ BoundaryState

\* React renders the boundary, the child renders normally
RenderChildren ==
    /\ renderPending
    /\ ~hasError
    /\ child = NoThrow
    /\ shown' = render([hasError |-> hasError, error |-> error])
    /\ renderPending' = FALSE
    /\ boundaryCalls' = << >>
    /\ UNCHANGED <<boundary, fallback, onError, child, hasError, error, retries>>
    /\ UNCHANGED hookVars

\* React renders the boundary, the child throws: the state is derived from the
\* error, the boundary is rendered again and componentDidCatch runs on commit
CatchError ==
    /\ renderPending
    /\ ~hasError
    /\ child # NoThrow
    /\ LET st == getDerivedStateFromError(child)
       IN /\ hasError' = st.hasError
          /\ error' = st.error
          /\ shown' = render(st)
    /\ boundaryCalls' = componentDidCatch(child)
    /\ renderPending' = FALSE
    /\ UNCHANGED <<boundary, fallback, onError, child, retries>>
    /\ UNCHANGED hookVars

\* React renders a boundary that holds an error: the child is not rendered
RenderFallback ==
    /\ renderPending
    /\ hasError
    /\ shown' = render([hasError |-> hasError, error |-> error])
    /\ renderPending' = FALSE
    /\ boundaryCalls' = << >>
    /\ UNCHANGED <<boundary, fallback, onError, child, hasError, error, retries>>
    /\ UNCHANGED hookVars

\* the user clicks the button of the default fallback UI
ClickRetry ==
    /\ ~renderPending
    /\ shown = DefaultUI
    /\ hasError' = handleRetry.hasError
    /\ error' = handleRetry.error
    /\ renderPending' = TRUE
    /\ boundaryCalls' = << >>
    /\ retries' = Min(retries + 1, MaxRetries)
    /\ UNCHANGED <<boundary, fallback, onError, child, shown>>
    /\ UNCHANGED hookVars

\* the parent renders again, with a child that throws or one that does not
ParentRender ==
    /\ ~renderPending
    /\ \E c \in {NoThrow} \cup Errors : child' = c
    /\ renderPending' = TRUE
    /\ boundaryCalls' = << >>
    /\ UNCHANGED <<boundary, fallback, onError, hasError, error, shown, retries>>
    /\ UNCHANGED hookVars

BoundaryNext ==
    \/ RenderChildren
    \/ CatchError
    \/ RenderFallback
    \/ ClickRetry
    \/ ParentRender

BoundarySpec == BoundaryInit /\ [][BoundaryNext]_vars

\* C25: for both boundaries, the children are on screen while no error has been
\* caught; when the child throws during render, hasError becomes true with the
\* thrown error stored, onError (if given) is called with that error, and the
\* fallback is shown instead of the children: the custom fallback whenever the
\* prop is provided, the default UI otherwise.
C25_BoundaryCatchesAndShowsFallback ==
    [][/\ (~renderPending' /\ ~hasError') => (shown' = "children" /\ error' = NullError)
       /\ (renderPending /\ ~renderPending' /\ ~hasError /\ child # NoThrow) =>
             /\ hasError'
             /\ error' = child
             /\ onError => boundaryCalls' = << [fn |-> "onError", error |-> child] >>
       /\ (~renderPending' /\ hasError') =>
             shown' = IF fallback # Undefined THEN fallback ELSE DefaultUI]_vars

\* C26: for both boundaries, a click on the retry button resets the state to
\* {hasError: false, error: null}; the render that follows shows the children,
\* or returns to the error state if the child throws again; and whenever the
\* default fallback is on screen the button can be clicked, however many times
\* it has been clicked before.
C26_RetryResetsAndRepeats ==
    [][/\ ClickRetry => (~hasError' /\ error' = NullError /\ renderPending')
       /\ (renderPending /\ ~hasError /\ ~renderPending') =>
             IF child = NoThrow
             THEN shown' = "children" /\ ~hasError'
             ELSE hasError' /\ error' = child /\ shown' # "children"
       /\ (~renderPending /\ shown = DefaultUI) => ENABLED ClickRetry]_vars

C26_Witness ==
    /\ retries = MaxRetries
    /\ ~renderPending
    /\ hasError
    /\ error = "Error: second"
    /\ shown = DefaultUI
    /\ boundary = "ChartErrorBoundary"

\* C31: the observable connection id is present only while the observable
\* isConnected flag is true: in every reachable state, isConnected = FALSE
\* implies connectionId = null.
C31_IdOnlyWhileConnected == ~isConnected => connectionId = NullId

C31_Witness ==
    /\ op = "checkInterval"
    /\ ~isConnected
    /\ connectionId = NullId
    /\ lastMessage.type = "connected"
    /\ lastMessage.connection_id # NullId
    /\ wsStatus = "closed"
====
